---- MODULE Spec2Model ----
(***************************************************************************)
(* Backward-compatibility rewrite engine of Engine/LoadKnobsCompat.cpp:    *)
(* filterKnobNameCompat rewrites a legacy parameter name,                  *)
(* filterKnobChoiceOptionCompat rewrites a legacy choice option, both by   *)
(* scanning a registry of rules built once by the constructors             *)
(* KnobNameFilters() and KnobChoiceOptionFilters().                        *)
(*                                                                         *)
(* A std::string is a sequence of one-character strings, so that prefix,   *)
(* suffix and case-insensitive comparison are computed character by        *)
(* character.  A function pointer (stringFuncPtr) is the name of the       *)
(* function it points to.                                                  *)
(***************************************************************************)
EXTENDS Integers, Sequences, FiniteSets, TLC

\* ------------------------------------------------------------ characters
LowerCase == <<"a", "b", "c", "d", "e", "f", "g", "h", "i", "j", "k", "l", "m", "n", "o", "p", "q", "r", "s", "t", "u", "v", "w", "x", "y", "z">>

UpperCase == <<"A", "B", "C", "D", "E", "F", "G", "H", "I", "J", "K", "L", "M", "N", "O", "P", "Q", "R", "S", "T", "U", "V", "W", "X", "Y", "Z">>

\* the upper-case letter of each lower-case letter
UpperOf ==
    [c \in {LowerCase[i] : i \in DOMAIN LowerCase} |->
        UpperCase[CHOOSE i \in DOMAIN LowerCase : LowerCase[i] = c]]

\* std::toupper in the "C" locale, as boost::iequals applies it to each char
toupper(c) == IF c \in DOMAIN UpperOf THEN UpperOf[c] ELSE c

\* ------------------------------------------------------- string matchers
\* the arguments taken the other way round: prefix.substr(0, str.size()) == str
startsWithSwapped(str, prefix) ==
    LET n == IF Len(str) < Len(prefix) THEN Len(str) ELSE Len(prefix)
    IN  SubSeq(prefix, 1, n) = str

\* str.substr(0, prefix.size()) == prefix
startsWith(str, prefix) ==
    LET n == IF Len(prefix) < Len(str) THEN Len(prefix) ELSE Len(str)
    IN  SubSeq(str, 1, n) = prefix

\* the comparison made at offset 0: str.compare(0, suffix.size(), suffix) == 0
endsWithFromStart(str, suffix) ==
    /\ Len(str) >= Len(suffix)
    /\ SubSeq(str, 1, Len(suffix)) = suffix

\* str.size() >= suffix.size() && str.compare(size - n, n, suffix) == 0
endsWith(str, suffix) ==
    /\ Len(str) >= Len(suffix)
    /\ SubSeq(str, Len(str) - Len(suffix) + 1, Len(str)) = suffix

equalsStringCaseSensitive(str1, str2) == str1 = str2

\* boost::iequals: same length and equal character by character after toupper
equalsStringCaseInsensitive(str1, str2) ==
    /\ Len(str1) = Len(str2)
    /\ \A i \in 1 .. Len(str1) : toupper(str1[i]) = toupper(str2[i])

\* a call through a stringFuncPtr
callFunc(func, str1, str2) ==
    CASE func = "startsWith" -> startsWith(str1, str2)
      [] func = "endsWith" -> endsWith(str1, str2)
      [] func = "equalsStringCaseSensitive" -> equalsStringCaseSensitive(str1, str2)
      [] func = "equalsStringCaseInsensitive" -> equalsStringCaseInsensitive(str1, str2)

\* ------------------------------------------------------------ rule model
\* NatronVersionMatch(): all three fields -1
NatronVersionMatch == [vMajor |-> -1, vMinor |-> -1, vRev |-> -1]

\* KnobNameFilter(): no alternatives, empty replacement, open version range
KnobNameFilter ==
    [filters |-> <<>>, replacement |-> <<>>,
     natronVersionMin |-> NatronVersionMatch, natronVersionMax |-> NatronVersionMatch]

\* KnobChoiceOptionFilter(): as KnobNameFilter, with an empty option list
KnobChoiceOptionFilter ==
    [filters |-> <<>>, optionFilters |-> <<>>, replacement |-> <<>>,
     natronVersionMin |-> NatronVersionMatch, natronVersionMax |-> NatronVersionMatch]

\* the KnobMatch that addKnobFilter creates: no plug-in constraint yet
KnobMatch(nameToMatch, func) ==
    [plugin |-> <<>>, filter |-> [nameToMatch |-> nameToMatch, func |-> func]]

\* addPluginMatch(m, ...): appends a constraint that compares the plug-in
\* identifier case-insensitively
addPluginMatch(m, pluginID, pluginMajorMin, pluginMinorMin, pluginMajorMax, pluginMinorMax) ==
    [m EXCEPT !.plugin = Append(@,
        [pluginID |-> pluginID,
         pluginVersionMajorMin |-> pluginMajorMin,
         pluginVersionMinorMin |-> pluginMinorMin,
         pluginVersionMajorMax |-> pluginMajorMax,
         pluginVersionMinorMax |-> pluginMinorMax,
         func |-> "equalsStringCaseInsensitive"])]

\* PluginMatch& p = addPluginMatch(m, pluginID); p.func = startsWith;
addPluginPrefix(m, pluginID) ==
    LET m2 == addPluginMatch(m, pluginID, -1, -1, -1, -1)
    IN  [m2 EXCEPT !.plugin[Len(m2.plugin)].func = "startsWith"]

\* addKnobFilter(f, nameToMatch, func) followed by the addPluginMatch calls
\* made on the KnobMatch it returns: m is that KnobMatch, complete
addKnobFilter(f, m) == [f EXCEPT !.filters = Append(@, m)]

addOptionFilter(f, nameToMatch, func) ==
    [f EXCEPT !.optionFilters = Append(@, [nameToMatch |-> nameToMatch, func |-> func])]

setNatronVersionMin(f, major, minor, rev) ==
    [f EXCEPT !.natronVersionMin = [vMajor |-> major, vMinor |-> minor, vRev |-> rev]]

setNatronVersionMax(f, major, minor, rev) ==
    [f EXCEPT !.natronVersionMax = [vMajor |-> major, vMinor |-> minor, vRev |-> rev]]

setReplacement(f, replacement) == [f EXCEPT !.replacement = replacement]

\* --------------------------------------------- identifiers of <ofxNatron.h>
\* The canonical identifiers are macros of a header outside this file; each
\* is one opaque, non-empty token that no legacy string contains.
kNatronOfxParamProcessR == <<"kNatronOfxParamProcessR">>

kNatronOfxParamProcessG == <<"kNatronOfxParamProcessG">>

kNatronOfxParamProcessB == <<"kNatronOfxParamProcessB">>

kNatronOfxParamProcessA == <<"kNatronOfxParamProcessA">>

kNatronColorPlaneID == <<"kNatronColorPlaneID">>

kNatronBackwardMotionVectorsPlaneID == <<"kNatronBackwardMotionVectorsPlaneID">>

kNatronForwardMotionVectorsPlaneID == <<"kNatronForwardMotionVectorsPlaneID">>

kNatronDisparityLeftPlaneID == <<"kNatronDisparityLeftPlaneID">>

kNatronDisparityRightPlaneID == <<"kNatronDisparityRightPlaneID">>

kNatronMotionComponentsLabel == <<"kNatronMotionComponentsLabel">>

kNatronDisparityComponentsLabel == <<"kNatronDisparityComponentsLabel">>

\* ------------------------------------------------------ the name registry
\* a KnobMatch on an exact name, for the plug-ins whose identifier starts
\* with "fr.inria." or with "net.sf.openfx."
NatronPluginKnobMatch(nameToMatch) ==
    addPluginPrefix(
        addPluginPrefix(KnobMatch(nameToMatch, "equalsStringCaseSensitive"), <<"f", "r", ".", "i", "n", "r", "i", "a", ".">>),
        <<"n", "e", "t", ".", "s", "f", ".", "o", "p", "e", "n", "f", "x", ".">>)

\* one block of KnobNameFilters(): the Natron 1.0 name and the Natron 2.0-2.2
\* (Roto) name of a process-channel parameter, up to Natron 2.2.99
ProcessChannelNameFilter(replacement, name10, name20) ==
    setNatronVersionMax(
        addKnobFilter(
            addKnobFilter(setReplacement(KnobNameFilter, replacement),
                          NatronPluginKnobMatch(name10)),
            NatronPluginKnobMatch(name20)),
        2, 2, 99)

\* KnobNameFilters::KnobNameFilters()
KnobNameFilters ==
    << ProcessChannelNameFilter(kNatronOfxParamProcessR, <<"r">>, <<"d", "o", "R", "e", "d">>),
       ProcessChannelNameFilter(kNatronOfxParamProcessG, <<"g">>, <<"d", "o", "G", "r", "e", "e", "n">>),
       ProcessChannelNameFilter(kNatronOfxParamProcessB, <<"b">>, <<"d", "o", "B", "l", "u", "e">>),
       ProcessChannelNameFilter(kNatronOfxParamProcessA, <<"a">>, <<"d", "o", "A", "l", "p", "h", "a">>) >>

\* ---------------------------------------------------- the option registry
RECURSIVE addOptionFilters(_, _)
\* consecutive addOptionFilter(f, option, equalsStringCaseInsensitive) calls
addOptionFilters(f, options) ==
    IF options = <<>> THEN f
    ELSE addOptionFilters(
             addOptionFilter(f, Head(options), "equalsStringCaseInsensitive"),
             Tail(options))

\* one of the first five blocks: the options of the plane selectors
\* "outputChannels" and "*channels", up to Natron 2.2.99
PlaneOptionFilter(replacement, options) ==
    addOptionFilters(
        setNatronVersionMax(
            addKnobFilter(
                addKnobFilter(setReplacement(KnobChoiceOptionFilter, replacement),
                              KnobMatch(<<"o", "u", "t", "p", "u", "t", "C", "h", "a", "n", "n", "e", "l", "s">>, "equalsStringCaseSensitive")),
                KnobMatch(<<"c", "h", "a", "n", "n", "e", "l", "s">>, "endsWith")),
            2, 2, 99),
        options)

IDistortSTMapKnobMatch(nameToMatch) ==
    addPluginMatch(
        addPluginMatch(KnobMatch(nameToMatch, "equalsStringCaseSensitive"),
                       <<"n", "e", "t", ".", "s", "f", ".", "o", "p", "e", "n", "f", "x", ".", "I", "D", "i", "s", "t", "o", "r", "t">>, -1, -1, -1, -1),
        <<"n", "e", "t", ".", "s", "f", ".", "o", "p", "e", "n", "f", "x", ".", "S", "T", "M", "a", "p">>, -1, -1, -1, -1)

ShuffleKnobMatch(nameToMatch) ==
    addPluginMatch(KnobMatch(nameToMatch, "equalsStringCaseSensitive"),
                   <<"n", "e", "t", ".", "s", "f", ".", "o", "p", "e", "n", "f", "x", ".", "S", "h", "u", "f", "f", "l", "e", "P", "l", "u", "g", "i", "n">>, 2, -1, -1, -1)

RECURSIVE addKnobFilters(_, _)
addKnobFilters(f, ms) ==
    IF ms = <<>> THEN f ELSE addKnobFilters(addKnobFilter(f, Head(ms)), Tail(ms))

\* the channel selectors, up to Natron 2.2.99
channelsFilterBase ==
    setNatronVersionMax(
        addKnobFilters(KnobChoiceOptionFilter,
            << KnobMatch(<<"m", "a", "s", "k", "C", "h", "a", "n", "n", "e", "l">>, "startsWith"),
               KnobMatch(<<"p", "r", "e", "m", "u", "l", "t", "C", "h", "a", "n", "n", "e", "l">>, "equalsStringCaseSensitive"),
               IDistortSTMapKnobMatch(<<"c", "h", "a", "n", "n", "e", "l", "U">>),
               IDistortSTMapKnobMatch(<<"c", "h", "a", "n", "n", "e", "l", "V">>),
               ShuffleKnobMatch(<<"o", "u", "t", "p", "u", "t", "R">>),
               ShuffleKnobMatch(<<"o", "u", "t", "p", "u", "t", "G">>),
               ShuffleKnobMatch(<<"o", "u", "t", "p", "u", "t", "B">>),
               ShuffleKnobMatch(<<"o", "u", "t", "p", "u", "t", "A">>) >>),
        2, 2, 99)

\* a channel rule whose replacement is never assigned
ChannelOptionFilterNoReplacement(options, replacement) ==
    addOptionFilters(channelsFilterBase, options)

\* KnobChoiceOptionFilter f = channelsFilterBase; addOptionFilter...; f.replacement = ...
ChannelOptionFilter(options, replacement) ==
    setReplacement(addOptionFilters(channelsFilterBase, options), replacement)

\* the options of the Write nodes ("fr.inria." plug-ins)
WriteOptionFilter(replacement, nameToMatch, option) ==
    addOptionFilter(
        addKnobFilter(setReplacement(KnobChoiceOptionFilter, replacement),
                      addPluginPrefix(KnobMatch(nameToMatch, "equalsStringCaseSensitive"),
                                      <<"f", "r", ".", "i", "n", "r", "i", "a", ".">>)),
        option, "equalsStringCaseInsensitive")

\* KnobChoiceOptionFilters::KnobChoiceOptionFilters()
KnobChoiceOptionFilters ==
    << PlaneOptionFilter(kNatronColorPlaneID,
           << <<"R", "G", "B", "A">>, <<"R", "G", "B">>, <<"A", "l", "p", "h", "a">>, <<"C", "o", "l", "o", "r", ".", "R", "G", "B", "A">>, <<"C", "o", "l", "o", "r", ".", "R", "G", "B">>, <<"C", "o", "l", "o", "r", ".", "A", "l", "p", "h", "a">> >>),
       PlaneOptionFilter(kNatronBackwardMotionVectorsPlaneID \o <<".">> \o kNatronMotionComponentsLabel,
           << <<"B", "a", "c", "k", "w", "a", "r", "d", ".", "M", "o", "t", "i", "o", "n">> >>),
       PlaneOptionFilter(kNatronForwardMotionVectorsPlaneID \o <<".">> \o kNatronMotionComponentsLabel,
           << <<"F", "o", "r", "w", "a", "r", "d", ".", "M", "o", "t", "i", "o", "n">> >>),
       PlaneOptionFilter(kNatronDisparityLeftPlaneID \o <<".">> \o kNatronDisparityComponentsLabel,
           << <<"D", "i", "s", "p", "a", "r", "i", "t", "y", "L", "e", "f", "t", ".", "D", "i", "s", "p", "a", "r", "i", "t", "y">> >>),
       PlaneOptionFilter(kNatronDisparityRightPlaneID \o <<".">> \o kNatronDisparityComponentsLabel,
           << <<"D", "i", "s", "p", "a", "r", "i", "t", "y", "R", "i", "g", "h", "t", ".", "D", "i", "s", "p", "a", "r", "i", "t", "y">> >>),
       ChannelOptionFilter(<< <<"R", "G", "B", "A", ".", "R">>, <<"U", "V", ".", "r">>, <<"r", "e", "d">>, <<"r">> >>, kNatronColorPlaneID \o <<".", "R">>),
       ChannelOptionFilter(<< <<"R", "G", "B", "A", ".", "G">>, <<"U", "V", ".", "g">>, <<"g", "r", "e", "e", "n">>, <<"g">> >>, kNatronColorPlaneID \o <<".", "G">>),
       ChannelOptionFilter(<< <<"R", "G", "B", "A", ".", "B">>, <<"U", "V", ".", "b">>, <<"b", "l", "u", "e">>, <<"b">> >>, kNatronColorPlaneID \o <<".", "B">>),
       ChannelOptionFilter(<< <<"R", "G", "B", "A", ".", "A">>, <<"U", "V", ".", "a">>, <<"a", "l", "p", "h", "a">>, <<"a">> >>, kNatronColorPlaneID \o <<".", "A">>),
       ChannelOptionFilter(<< <<"A", ".", "r">> >>, <<"A", ".">> \o kNatronColorPlaneID \o <<".", "R">>),
       ChannelOptionFilter(<< <<"A", ".", "g">> >>, <<"A", ".">> \o kNatronColorPlaneID \o <<".", "G">>),
       ChannelOptionFilter(<< <<"A", ".", "b">> >>, <<"A", ".">> \o kNatronColorPlaneID \o <<".", "b">>),
       ChannelOptionFilter(<< <<"A", ".", "a">> >>, <<"A", ".">> \o kNatronColorPlaneID \o <<".", "A">>),
       ChannelOptionFilter(<< <<"B", ".", "r">> >>, <<"B", ".">> \o kNatronColorPlaneID \o <<".", "R">>),
       ChannelOptionFilter(<< <<"B", ".", "g">> >>, <<"B", ".">> \o kNatronColorPlaneID \o <<".", "G">>),
       ChannelOptionFilter(<< <<"B", ".", "b">> >>, <<"B", ".">> \o kNatronColorPlaneID \o <<".", "B">>),
       ChannelOptionFilter(<< <<"B", ".", "a">> >>, <<"B", ".">> \o kNatronColorPlaneID \o <<".", "A">>),
       setNatronVersionMax(
           WriteOptionFilter(<<"p", "r", "o", "j", "e", "c", "t">>, <<"f", "r", "a", "m", "e", "R", "a", "n", "g", "e">>, <<"T", "i", "m", "e", "l", "i", "n", "e", " ", "b", "o", "u", "n", "d", "s">>), 1, -1, -1),
       WriteOptionFilter(<<"8", "u">>, <<"b", "i", "t", "D", "e", "p", "t", "h">>, <<"8", "i">>),
       WriteOptionFilter(<<"1", "6", "u">>, <<"b", "i", "t", "D", "e", "p", "t", "h">>, <<"1", "6", "i">>) >>

\* ------------------------------------------------------ the lookup engine
\* a host-version lower bound that lets an unknown (-1) major be compared
natronVersionBelowMinNoSentinel(filter, natronVersionMajor, natronVersionMinor, natronVersionRevision) ==
    /\ filter.natronVersionMin.vMajor # -1
    /\ \/ natronVersionMajor < filter.natronVersionMin.vMajor
       \/ /\ filter.natronVersionMin.vMinor # -1
          /\ \/ /\ natronVersionMajor = filter.natronVersionMin.vMajor
                /\ natronVersionMinor < filter.natronVersionMin.vMinor
             \/ /\ filter.natronVersionMin.vRev # -1
                /\ natronVersionMajor = filter.natronVersionMin.vMajor
                /\ natronVersionMinor = filter.natronVersionMin.vMinor
                /\ natronVersionRevision < filter.natronVersionMin.vRev

\* a host-version lower bound that compares the revision although the
\* bound's minor is -1
natronVersionBelowMinUntruncated(filter, natronVersionMajor, natronVersionMinor, natronVersionRevision) ==
    /\ natronVersionMajor # -1
    /\ filter.natronVersionMin.vMajor # -1
    /\ \/ natronVersionMajor < filter.natronVersionMin.vMajor
       \/ /\ filter.natronVersionMin.vMinor # -1
          /\ natronVersionMajor = filter.natronVersionMin.vMajor
          /\ natronVersionMinor < filter.natronVersionMin.vMinor
       \/ /\ filter.natronVersionMin.vRev # -1
          /\ natronVersionMajor = filter.natronVersionMin.vMajor
          /\ \/ filter.natronVersionMin.vMinor = -1
             \/ natronVersionMinor = filter.natronVersionMin.vMinor
          /\ natronVersionRevision < filter.natronVersionMin.vRev

\* matchKnobFilterInternal, "match natron version": the condition of the
\* first return false (the host version is below natronVersionMin)
natronVersionBelowMin(filter, natronVersionMajor, natronVersionMinor, natronVersionRevision) ==
    /\ natronVersionMajor # -1
    /\ filter.natronVersionMin.vMajor # -1
    /\ \/ natronVersionMajor < filter.natronVersionMin.vMajor
       \/ /\ filter.natronVersionMin.vMinor # -1
          /\ \/ /\ natronVersionMajor = filter.natronVersionMin.vMajor
                /\ natronVersionMinor < filter.natronVersionMin.vMinor
             \/ /\ filter.natronVersionMin.vRev # -1
                /\ natronVersionMajor = filter.natronVersionMin.vMajor
                /\ natronVersionMinor = filter.natronVersionMin.vMinor
                /\ natronVersionRevision < filter.natronVersionMin.vRev

\* a host-version upper bound that excludes the bound's own revision
natronVersionAboveMaxExclusive(filter, natronVersionMajor, natronVersionMinor, natronVersionRevision) ==
    /\ natronVersionMajor # -1
    /\ filter.natronVersionMax.vMajor # -1
    /\ \/ natronVersionMajor > filter.natronVersionMax.vMajor
       \/ /\ filter.natronVersionMax.vMinor # -1
          /\ \/ /\ natronVersionMajor = filter.natronVersionMax.vMajor
                /\ natronVersionMinor > filter.natronVersionMax.vMinor
             \/ /\ filter.natronVersionMax.vRev # -1
                /\ natronVersionMajor = filter.natronVersionMax.vMajor
                /\ natronVersionMinor = filter.natronVersionMax.vMinor
                /\ natronVersionRevision >= filter.natronVersionMax.vRev

\* the condition of the second return false (the host version is above
\* natronVersionMax)
natronVersionAboveMax(filter, natronVersionMajor, natronVersionMinor, natronVersionRevision) ==
    /\ natronVersionMajor # -1
    /\ filter.natronVersionMax.vMajor # -1
    /\ \/ natronVersionMajor > filter.natronVersionMax.vMajor
       \/ /\ filter.natronVersionMax.vMinor # -1
          /\ \/ /\ natronVersionMajor = filter.natronVersionMax.vMajor
                /\ natronVersionMinor > filter.natronVersionMax.vMinor
             \/ /\ filter.natronVersionMax.vRev # -1
                /\ natronVersionMajor = filter.natronVersionMax.vMajor
                /\ natronVersionMinor = filter.natronVersionMax.vMinor
                /\ natronVersionRevision > filter.natronVersionMax.vRev

\* neither return false of "match natron version" is taken
matchNatronVersion(filter, natronVersionMajor, natronVersionMinor, natronVersionRevision) ==
    /\ ~natronVersionBelowMin(filter, natronVersionMajor, natronVersionMinor, natronVersionRevision)
    /\ ~natronVersionAboveMax(filter, natronVersionMajor, natronVersionMinor, natronVersionRevision)

\* the version tests made on one PluginMatch whose identifier matched:
\* TRUE iff one of them returns false from matchKnobFilterInternal
pluginVersionOutOfRange(p, pluginVersionMajor, pluginVersionMinor) ==
    \/ /\ pluginVersionMajor # -1
       /\ p.pluginVersionMajorMin # -1
       /\ \/ pluginVersionMajor < p.pluginVersionMajorMin
          \/ /\ p.pluginVersionMinorMin # -1
             /\ pluginVersionMajor = p.pluginVersionMajorMin
             /\ pluginVersionMinor < p.pluginVersionMinorMin
    \/ /\ pluginVersionMajor # -1
       /\ p.pluginVersionMajorMax # -1
       /\ \/ pluginVersionMajor > p.pluginVersionMajorMax
          \/ /\ p.pluginVersionMinorMax # -1
             /\ pluginVersionMajor = p.pluginVersionMajorMax
             /\ pluginVersionMinor > p.pluginVersionMinorMax

RECURSIVE matchPluginLoop(_, _, _, _, _)
\* the loop over it->plugin, from its k-th element: "continue" when the
\* identifier does not match, "return false" out of matchKnobFilterInternal
\* when it matches and the version is out of range, else matchPlugin = true
\* and break; "no match" when the list is exhausted with matchPlugin false
matchPluginLoop(plugin, k, pluginID, pluginVersionMajor, pluginVersionMinor) ==
    IF k > Len(plugin) THEN "no match"
    ELSE IF ~callFunc(plugin[k].func, pluginID, plugin[k].pluginID)
         THEN matchPluginLoop(plugin, k + 1, pluginID, pluginVersionMajor, pluginVersionMinor)
    ELSE IF pluginVersionOutOfRange(plugin[k], pluginVersionMajor, pluginVersionMinor)
         THEN "return false"
    ELSE "match"

RECURSIVE matchKnobLoop(_, _, _, _, _, _)
\* the loop over filter.filters, from its j-th element
matchKnobLoop(filters, j, name, pluginID, pluginVersionMajor, pluginVersionMinor) ==
    IF j > Len(filters) THEN FALSE
    ELSE LET it == filters[j]
             matchPlugin ==
                 IF it.plugin # <<>>
                 THEN matchPluginLoop(it.plugin, 1, pluginID, pluginVersionMajor, pluginVersionMinor)
                 ELSE "match"
         IN  IF matchPlugin = "return false" THEN FALSE
             ELSE IF matchPlugin = "no match"
                  THEN matchKnobLoop(filters, j + 1, name, pluginID,
                                     pluginVersionMajor, pluginVersionMinor)
             ELSE IF callFunc(it.filter.func, name, it.filter.nameToMatch) THEN TRUE
             ELSE matchKnobLoop(filters, j + 1, name, pluginID,
                                pluginVersionMajor, pluginVersionMinor)

matchKnobFilterInternal(filter, name, pluginID, pluginVersionMajor, pluginVersionMinor, natronVersionMajor, natronVersionMinor, natronVersionRevision) ==
    IF ~matchNatronVersion(filter, natronVersionMajor, natronVersionMinor, natronVersionRevision)
    THEN FALSE
    ELSE IF filter.filters # <<>>
         THEN matchKnobLoop(filter.filters, 1, name, pluginID,
                            pluginVersionMajor, pluginVersionMinor)
    ELSE TRUE

\* matchKnobFilterInternal on the arguments a of a lookup
matchCall(filter, name, a) ==
    matchKnobFilterInternal(filter, name, a.pluginID,
                            a.pluginVersionMajor, a.pluginVersionMinor,
                            a.natronVersionMajor, a.natronVersionMinor,
                            a.natronVersionRevision)

\* one iteration of the loop of filterKnobNameCompat on rule `filter`:
\* returned says whether the function returned, ret and name what it left
nameLoopBody(filter, a, name) ==
    IF ~matchCall(filter, name, a)
    THEN [returned |-> FALSE, ret |-> FALSE, name |-> name]
    ELSE [returned |-> TRUE, ret |-> TRUE, name |-> filter.replacement]

\* the assertions made on the rule of one iteration of filterKnobNameCompat
\* (and again on entry of matchKnobFilterInternal)
assertKnobNameFilter(filter) == filter.replacement # <<>>

\* the assertions made on the rule of one iteration of
\* filterKnobChoiceOptionCompat (and on entry of matchKnobFilterInternal)
assertKnobChoiceOptionFilter(filter) ==
    filter.replacement # <<>> /\ filter.optionFilters # <<>>

\* is there an option pattern of `filter` that matches *name
optionLoop(filter, name) ==
    \E k \in 1 .. Len(filter.optionFilters) :
        callFunc(filter.optionFilters[k].func, name, filter.optionFilters[k].nameToMatch)

\* an iteration that overwrites *name as soon as the rule's gates match,
\* before an option pattern has matched
optionLoopBodyEager(filter, a, name) ==
    IF ~matchCall(filter, a.paramName, a)
    THEN [returned |-> FALSE, ret |-> FALSE, name |-> name]
    ELSE [returned |-> optionLoop(filter, name), ret |-> optionLoop(filter, name),
          name |-> filter.replacement]

\* an iteration that returns false when the rule's gates match and no
\* option pattern does
optionLoopBodyGiveUp(filter, a, name) ==
    IF ~matchCall(filter, a.paramName, a)
    THEN [returned |-> FALSE, ret |-> FALSE, name |-> name]
    ELSE IF optionLoop(filter, name)
         THEN [returned |-> TRUE, ret |-> TRUE, name |-> filter.replacement]
    ELSE [returned |-> TRUE, ret |-> FALSE, name |-> name]

\* one iteration of the loop of filterKnobChoiceOptionCompat
optionLoopBody(filter, a, name) ==
    IF matchCall(filter, a.paramName, a) /\ optionLoop(filter, name)
    THEN [returned |-> TRUE, ret |-> TRUE, name |-> filter.replacement]
    ELSE [returned |-> FALSE, ret |-> FALSE, name |-> name]

RECURSIVE nameLoopKeepScanning(_, _, _, _)
\* a loop that overwrites *name and goes on to the next rule instead of
\* returning
nameLoopKeepScanning(filters, i, a, name) ==
    IF i > Len(filters) THEN [ret |-> FALSE, name |-> name]
    ELSE LET r == nameLoopBody(filters[i], a, name)
             rest == nameLoopKeepScanning(filters, i + 1, a, r.name)
         IN  [ret |-> r.ret \/ rest.ret, name |-> rest.name]

RECURSIVE nameLoop(_, _, _, _)
\* the loop of filterKnobNameCompat from index i (0-based in the source)
nameLoop(filters, i, a, name) ==
    IF i > Len(filters) THEN [ret |-> FALSE, name |-> name]
    ELSE LET r == nameLoopBody(filters[i], a, name)
         IN  IF r.returned THEN [ret |-> r.ret, name |-> r.name]
             ELSE nameLoop(filters, i + 1, a, r.name)

RECURSIVE optionLoopFrom(_, _, _, _)
optionLoopFrom(filters, i, a, name) ==
    IF i > Len(filters) THEN [ret |-> FALSE, name |-> name]
    ELSE LET r == optionLoopBody(filters[i], a, name)
         IN  IF r.returned THEN [ret |-> r.ret, name |-> r.name]
             ELSE optionLoopFrom(filters, i + 1, a, r.name)

\* ------------------------------------------------------------------ state
VARIABLES
    knobNameFilters,          \* static const KnobNameFilters knobNameFilters (.filters)
    knobChoiceOptionFilters,  \* static const KnobChoiceOptionFilters knobChoiceOptionFilters (.filters)
    args,                     \* the arguments of the lookup; args.name is *name at the call
    name,                     \* the string that the argument `name` points to
    call,                     \* "none", or the lookup that has returned: "name", "option"
    ret,                      \* what the lookup returned
    pc,                       \* per thread: "idle", in "name" or "option", "name returned", "option returned"
    targs,                    \* per thread: the arguments of its lookup
    idx,                      \* per thread: the loop variable i (1-based)
    tname,                    \* per thread: the string its `name` points to
    tret                      \* per thread: what its lookup returned

vars == << knobNameFilters, knobChoiceOptionFilters, args, name, call, ret,
           pc, targs, idx, tname, tret >>

registries == << knobNameFilters, knobChoiceOptionFilters >>

threadVars == << pc, targs, idx, tname, tret >>

\* ----------------------------------------------------------- the lookups
filterKnobNameCompat(a, str) == nameLoop(knobNameFilters, 1, a, str)

filterKnobChoiceOptionCompat(a, str) == optionLoopFrom(knobChoiceOptionFilters, 1, a, str)

\* ---------------------------------------------------- arguments of a call
Args(pluginID, pluginVersion, natronVersion, paramName, str) ==
    [pluginID |-> pluginID,
     pluginVersionMajor |-> pluginVersion[1],
     pluginVersionMinor |-> pluginVersion[2],
     natronVersionMajor |-> natronVersion[1],
     natronVersionMinor |-> natronVersion[2],
     natronVersionRevision |-> natronVersion[3],
     paramName |-> paramName,
     name |-> str]

PluginIDs ==
    { <<"n", "e", "t", ".", "s", "f", ".", "o", "p", "e", "n", "f", "x", ".", "F", "o", "o">>, <<"f", "r", ".", "i", "n", "r", "i", "a", ".", "b", "u", "i", "l", "t", "-", "i", "n", ".", "W", "r", "i", "t", "e">>,
      <<"n", "e", "t", ".", "s", "f", ".", "o", "p", "e", "n", "f", "x", ".", "S", "h", "u", "f", "f", "l", "e", "P", "l", "u", "g", "i", "n">>, <<"c", "o", "m", ".", "a", "c", "m", "e", ".", "B", "l", "u", "r">> }

PluginVersions == { <<-1, -1>>, <<1, 0>>, <<2, -1>> }

NatronVersions ==
    { <<-1, -1, -1>>, <<1, 5, 0>>, <<2, -1, -1>>,
      <<2, 2, 99>>, <<2, 2, 100>>, <<2, 3, 0>> }

\* parameter names given to filterKnobNameCompat
KnobNames ==
    { <<"r">>, <<"d", "o", "R", "e", "d">>, <<"g">>, <<"d", "o", "G", "r", "e", "e", "n">>, <<"b">>, <<"d", "o", "B", "l", "u", "e">>, <<"a">>, <<"d", "o", "A", "l", "p", "h", "a">>,
      <<"R">>, <<"r", "e", "d">>, <<"d", "o", "r", "e", "d">>, <<"s", "i", "z", "e">> }

\* parameter names given to filterKnobChoiceOptionCompat
ParamNames ==
    { <<"o", "u", "t", "p", "u", "t", "C", "h", "a", "n", "n", "e", "l", "s">>, <<"c", "h", "a", "n", "n", "e", "l", "s">>, <<"m", "y", "c", "h", "a", "n", "n", "e", "l", "s">>, <<"C", "h", "a", "n", "n", "e", "l", "s">>,
      <<"m", "a", "s", "k", "C", "h", "a", "n", "n", "e", "l">>, <<"m", "a", "s", "k", "C", "h", "a", "n", "n", "e", "l", "F", "o", "o">>, <<"p", "r", "e", "m", "u", "l", "t", "C", "h", "a", "n", "n", "e", "l">>, <<"o", "u", "t", "p", "u", "t", "R">>,
      <<"f", "r", "a", "m", "e", "R", "a", "n", "g", "e">>, <<"b", "i", "t", "D", "e", "p", "t", "h">>, <<"s", "o", "m", "e", "t", "h", "i", "n", "g", "E", "l", "s", "e">> }

\* option values given to filterKnobChoiceOptionCompat
Options ==
    { <<"R", "G", "B", "A">>, <<"r", "g", "b", "a">>, <<"R", "G", "B">>, <<"A", "l", "p", "h", "a">>, <<"C", "o", "l", "o", "r", ".", "R", "G", "B", "A">>, <<"C", "o", "l", "o", "r", ".", "R", "G", "B">>, <<"C", "o", "l", "o", "r", ".", "A", "l", "p", "h", "a">>,
      <<"B", "a", "c", "k", "w", "a", "r", "d", ".", "M", "o", "t", "i", "o", "n">>, <<"F", "o", "r", "w", "a", "r", "d", ".", "M", "o", "t", "i", "o", "n">>, <<"D", "i", "s", "p", "a", "r", "i", "t", "y", "L", "e", "f", "t", ".", "D", "i", "s", "p", "a", "r", "i", "t", "y">>,
      <<"r", "e", "d">>, <<"R", "E", "D">>, <<"r">>, <<"R", "G", "B", "A", "Z">>,
      <<"A", ".", "r">>, <<"A", ".", "g">>, <<"A", ".", "b">>, <<"A", ".", "a">>, <<"B", ".", "r">>, <<"B", ".", "g">>, <<"B", ".", "b">>, <<"B", ".", "a">>,
      <<"T", "i", "m", "e", "l", "i", "n", "e", " ", "b", "o", "u", "n", "d", "s">>, <<"8", "i">> }

\* ------------------------------------------- one lookup on the registries
InitCall ==
    /\ name = args.name
    /\ call = "none"
    /\ ret = FALSE
    /\ pc = << >>
    /\ targs = << >>
    /\ idx = << >>
    /\ tname = << >>
    /\ tret = << >>

\* the registries as constructed, the arguments of one lookup
Init ==
    /\ knobNameFilters = KnobNameFilters
    /\ knobChoiceOptionFilters = KnobChoiceOptionFilters
    /\ \E pluginID \in PluginIDs, pluginVersion \in PluginVersions,
          natronVersion \in NatronVersions :
          \/ \E str \in KnobNames :
                 args = Args(pluginID, pluginVersion, natronVersion, <<>>, str)
          \/ \E paramName \in ParamNames, str \in Options :
                 args = Args(pluginID, pluginVersion, natronVersion, paramName, str)
    /\ InitCall

\* bool filterKnobNameCompat(pluginID, ..., std::string* name)
FilterKnobNameCompat ==
    /\ call = "none"
    /\ LET r == filterKnobNameCompat(args, name)
       IN  /\ name' = r.name
           /\ ret' = r.ret
    /\ call' = "name"
    /\ UNCHANGED << registries, args, threadVars >>

\* bool filterKnobChoiceOptionCompat(pluginID, ..., paramName, std::string* name)
FilterKnobChoiceOptionCompat ==
    /\ call = "none"
    /\ LET r == filterKnobChoiceOptionCompat(args, name)
       IN  /\ name' = r.name
           /\ ret' = r.ret
    /\ call' = "option"
    /\ UNCHANGED << registries, args, threadVars >>

Next == FilterKnobNameCompat \/ FilterKnobChoiceOptionCompat

Spec == Init /\ [][Next]_vars

\* --------------------------------------- concurrent lookups (SpecThreads)
\* Each thread runs one lookup after the other; a step is one iteration of
\* the loop over the registry, so that the iterations of different threads
\* interleave in every order.
NumThreads == 2

Threads == 1 .. NumThreads

ThreadNameArgs ==
    { Args(<<"n", "e", "t", ".", "s", "f", ".", "o", "p", "e", "n", "f", "x", ".", "F", "o", "o">>, <<1, 0>>, <<2, 2, 99>>, <<>>, <<"b">>),
      Args(<<"n", "e", "t", ".", "s", "f", ".", "o", "p", "e", "n", "f", "x", ".", "F", "o", "o">>, <<1, 0>>, <<2, 3, 0>>, <<>>, <<"b">>) }

ThreadOptionArgs ==
    { Args(<<"c", "o", "m", ".", "a", "c", "m", "e", ".", "B", "l", "u", "r">>, <<-1, -1>>, <<2, 2, 99>>, <<"o", "u", "t", "p", "u", "t", "C", "h", "a", "n", "n", "e", "l", "s">>, <<"F", "o", "r", "w", "a", "r", "d", ".", "M", "o", "t", "i", "o", "n">>),
      Args(<<"c", "o", "m", ".", "a", "c", "m", "e", ".", "B", "l", "u", "r">>, <<-1, -1>>, <<-1, -1, -1>>, <<"m", "a", "s", "k", "C", "h", "a", "n", "n", "e", "l", "F", "o", "o">>, <<"g", "r", "e", "e", "n">>) }

InitThreads ==
    /\ knobNameFilters = KnobNameFilters
    /\ knobChoiceOptionFilters = KnobChoiceOptionFilters
    /\ args = Args(<<>>, <<-1, -1>>, <<-1, -1, -1>>, <<>>, <<>>)
    /\ name = <<>>
    /\ call = "none"
    /\ ret = FALSE
    /\ pc = [t \in Threads |-> "idle"]
    /\ targs = [t \in Threads |-> args]
    /\ idx = [t \in Threads |-> 1]
    /\ tname = [t \in Threads |-> <<>>]
    /\ tret = [t \in Threads |-> FALSE]

\* thread t enters filterKnobNameCompat or filterKnobChoiceOptionCompat
Enter(t, fn, a) ==
    /\ pc[t] \in {"idle", "name returned", "option returned"}
    /\ pc' = [pc EXCEPT ![t] = fn]
    /\ targs' = [targs EXCEPT ![t] = a]
    /\ idx' = [idx EXCEPT ![t] = 1]
    /\ tname' = [tname EXCEPT ![t] = a.name]
    /\ tret' = [tret EXCEPT ![t] = FALSE]
    /\ UNCHANGED << registries, args, name, call, ret >>

CallName(t) == \E a \in ThreadNameArgs : Enter(t, "name", a)

CallOption(t) == \E a \in ThreadOptionArgs : Enter(t, "option", a)

\* an iteration that writes the string through one buffer shared by all calls
IterateStaticBuffer(t, r) ==
    /\ pc' = [pc EXCEPT ![t] = IF r.returned THEN IF @ = "name" THEN "name returned" ELSE "option returned" ELSE @]
    /\ idx' = [idx EXCEPT ![t] = IF r.returned THEN @ ELSE @ + 1]
    /\ tname' = [u \in Threads |-> r.name]
    /\ tret' = [tret EXCEPT ![t] = r.ret]
    /\ UNCHANGED << registries, args, name, call, ret, targs >>

\* what one iteration of thread t's loop, with outcome r, leaves
Iterate(t, r) ==
    /\ pc' = [pc EXCEPT ![t] = IF r.returned THEN IF @ = "name" THEN "name returned" ELSE "option returned" ELSE @]
    /\ idx' = [idx EXCEPT ![t] = IF r.returned THEN @ ELSE @ + 1]
    /\ tname' = [tname EXCEPT ![t] = r.name]
    /\ tret' = [tret EXCEPT ![t] = r.ret]
    /\ UNCHANGED << registries, args, name, call, ret, targs >>

\* the loop is over: return false
Exhausted(t) == [returned |-> TRUE, ret |-> FALSE, name |-> tname[t]]

\* one iteration of the loop of filterKnobNameCompat in thread t
StepName(t) ==
    /\ pc[t] = "name"
    /\ Iterate(t, IF idx[t] > Len(knobNameFilters) THEN Exhausted(t)
                  ELSE nameLoopBody(knobNameFilters[idx[t]], targs[t], tname[t]))

\* one iteration of the loop of filterKnobChoiceOptionCompat in thread t
StepOption(t) ==
    /\ pc[t] = "option"
    /\ Iterate(t, IF idx[t] > Len(knobChoiceOptionFilters) THEN Exhausted(t)
                  ELSE optionLoopBody(knobChoiceOptionFilters[idx[t]], targs[t], tname[t]))

NextThreads ==
    \E t \in Threads : CallName(t) \/ CallOption(t) \/ StepName(t) \/ StepOption(t)

SpecThreads == InitThreads /\ [][NextThreads]_vars

\* ------------------------------ lookups on any registry (SpecRules)
\* The engine is also run on registries other than the shipped catalogue,
\* built by the same helpers from bounded sets: rules with any version
\* range, any plug-in version bounds, several alternatives and constraints,
\* and registries of several rules that match the same name.
MaxVersion == 1

MaxAlternatives == 2

MaxPlugins == 2

MaxRules == 2

Versions == -1 .. MaxVersion

\* the sequences over S of length at most n
SeqUpTo(S, n) == UNION { [1 .. k -> S] : k \in 0 .. n }

\* the option rule with the gates of the name rule f and one option pattern
OptionRuleOf(f) ==
    addOptionFilter(
        [filters |-> f.filters, optionFilters |-> <<>>, replacement |-> f.replacement,
         natronVersionMin |-> f.natronVersionMin, natronVersionMax |-> f.natronVersionMax],
        <<"x">>, "startsWith")

\* the registries hold the rules fs; the lookup has arguments a, and the
\* option lookup is made on the parameter a.name with the option a.name
InitRules(fs, a) ==
    /\ knobNameFilters = fs
    /\ knobChoiceOptionFilters = [i \in DOMAIN fs |-> OptionRuleOf(fs[i])]
    /\ args = [a EXCEPT !.paramName = a.name]
    /\ InitCall

\* one rule without alternatives, with any version range; any host version
InitVersionRange ==
    \E vMin \in Versions \X Versions \X Versions,
       vMax \in Versions \X Versions \X Versions,
       natronVersion \in Versions \X Versions \X Versions :
        InitRules(
            << setNatronVersionMax(
                   setNatronVersionMin(setReplacement(KnobNameFilter, <<"u">>),
                                       vMin[1], vMin[2], vMin[3]),
                   vMax[1], vMax[2], vMax[3]) >>,
            Args(<<"p">>, <<-1, -1>>, natronVersion, <<>>, <<"x">>))

\* one rule with one alternative and one plug-in constraint, with any
\* version bounds; any plug-in version
InitPluginVersion ==
    \E vMin \in Versions \X Versions, vMax \in Versions \X Versions,
       pluginID \in { <<"p">>, <<"P">>, <<"q">> }, pluginVersion \in Versions \X Versions :
        InitRules(
            << addKnobFilter(setReplacement(KnobNameFilter, <<"u">>),
                   addPluginMatch(KnobMatch(<<"x">>, "equalsStringCaseSensitive"),
                                  <<"p">>, vMin[1], vMin[2], vMax[1], vMax[2])) >>,
            Args(pluginID, pluginVersion, <<-1, -1, -1>>, <<>>, <<"x">>))

\* the plug-in constraints of the rules with several alternatives: plug-in
\* "p" of any version, and plug-in "p" from version 1
RulePluginMatches ==
    { addPluginMatch(KnobMatch(<<>>, "equalsStringCaseSensitive"), <<"p">>, vMajorMin, -1, -1, -1).plugin[1] :
        vMajorMin \in {-1, 1} }

\* the alternatives: at most MaxPlugins constraints, name "x" or "y"
RuleKnobMatches ==
    { [plugin |-> ps, filter |-> [nameToMatch |-> n, func |-> "equalsStringCaseSensitive"]] :
        ps \in SeqUpTo(RulePluginMatches, MaxPlugins), n \in { <<"x">>, <<"y">> } }

\* one rule with at most MaxAlternatives alternatives
InitAlternatives ==
    \E ms \in SeqUpTo(RuleKnobMatches, MaxAlternatives),
       pluginID \in { <<"p">>, <<"q">> }, vMajor \in {0, 1} :
        InitRules(
            << addKnobFilters(setReplacement(KnobNameFilter, <<"u">>), ms) >>,
            Args(pluginID, <<vMajor, 0>>, <<-1, -1, -1>>, <<>>, <<"x">>))

\* rules of one unconstrained alternative: a name pattern and a replacement
OrderRules ==
    { addKnobFilter(setReplacement(KnobNameFilter, r), KnobMatch(m[1], m[2])) :
        r \in { <<"y">>, <<"z">> },
        m \in { << <<"x">>, "equalsStringCaseSensitive" >>, << <<"x">>, "startsWith" >>,
                << <<"y">>, "equalsStringCaseSensitive" >>, << <<>>, "startsWith" >> } }

\* a registry of at most MaxRules such rules
InitOrder ==
    \E fs \in SeqUpTo(OrderRules, MaxRules), str \in { <<"x">>, <<"x", "y">>, <<"y">>, <<"w">> } :
        InitRules(fs, Args(<<"p">>, <<-1, -1>>, <<-1, -1, -1>>, <<>>, str))

InitAnyRules == InitVersionRange \/ InitPluginVersion \/ InitAlternatives \/ InitOrder

SpecRules == InitAnyRules /\ [][Next]_vars

\* ------------------------------------------- what the rules are meant to do
\* The gates of a rule as the specification states them, written without
\* the engine's operators: the properties below compare the engine to them.
HasPrefix(s, p) == Len(p) <= Len(s) /\ \A i \in 1 .. Len(p) : s[i] = p[i]

HasSuffix(s, p) ==
    Len(p) <= Len(s) /\ \A i \in 1 .. Len(p) : s[Len(s) - Len(p) + i] = p[i]

SameLetter(c, d) ==
    \/ c = d
    \/ c \in DOMAIN UpperOf /\ UpperOf[c] = d
    \/ d \in DOMAIN UpperOf /\ UpperOf[d] = c

EqualIgnoringCase(s, t) ==
    Len(s) = Len(t) /\ \A i \in 1 .. Len(s) : SameLetter(s[i], t[i])

Matches(func, s, pattern) ==
    CASE func = "startsWith" -> HasPrefix(s, pattern)
      [] func = "endsWith" -> HasSuffix(s, pattern)
      [] func = "equalsStringCaseSensitive" -> s = pattern
      [] func = "equalsStringCaseInsensitive" -> EqualIgnoringCase(s, pattern)

\* v and w are (major, minor, revision): v <= w in the lexicographic order
LexLE(v, w) ==
    \/ v[1] < w[1]
    \/ v[1] = w[1] /\ v[2] < w[2]
    \/ v[1] = w[1] /\ v[2] = w[2] /\ v[3] <= w[3]

\* a -1 in the version v or in the bound b leaves that field and the finer
\* ones unconstrained
WithinLower(v, b) ==
    \/ v[1] = -1 \/ b[1] = -1 \/ v[1] > b[1]
    \/ /\ v[1] = b[1]
       /\ \/ v[2] = -1 \/ b[2] = -1 \/ v[2] > b[2]
          \/ v[2] = b[2] /\ (v[3] = -1 \/ b[3] = -1 \/ v[3] >= b[3])

WithinUpper(v, b) ==
    \/ v[1] = -1 \/ b[1] = -1 \/ v[1] < b[1]
    \/ /\ v[1] = b[1]
       /\ \/ v[2] = -1 \/ b[2] = -1 \/ v[2] < b[2]
          \/ v[2] = b[2] /\ (v[3] = -1 \/ b[3] = -1 \/ v[3] <= b[3])

HostVersion(a) ==
    << a.natronVersionMajor, a.natronVersionMinor, a.natronVersionRevision >>

HostGate(f, a) ==
    /\ WithinLower(HostVersion(a),
           << f.natronVersionMin.vMajor, f.natronVersionMin.vMinor, f.natronVersionMin.vRev >>)
    /\ WithinUpper(HostVersion(a),
           << f.natronVersionMax.vMajor, f.natronVersionMax.vMinor, f.natronVersionMax.vRev >>)

PluginVersionGate(p, a) ==
    /\ WithinLower(<< a.pluginVersionMajor, a.pluginVersionMinor, -1 >>,
                   << p.pluginVersionMajorMin, p.pluginVersionMinorMin, -1 >>)
    /\ WithinUpper(<< a.pluginVersionMajor, a.pluginVersionMinor, -1 >>,
                   << p.pluginVersionMajorMax, p.pluginVersionMinorMax, -1 >>)

PluginGate(m, a) ==
    \/ m.plugin = <<>>
    \/ \E k \in DOMAIN m.plugin :
           /\ Matches(m.plugin[k].func, a.pluginID, m.plugin[k].pluginID)
           /\ PluginVersionGate(m.plugin[k], a)

AlternativeGate(m, subject, a) ==
    PluginGate(m, a) /\ Matches(m.filter.func, subject, m.filter.nameToMatch)

\* the host-version gate, the plug-in gate and the name gate of rule f
RuleGates(f, subject, a) ==
    /\ HostGate(f, a)
    /\ \E j \in DOMAIN f.filters : AlternativeGate(f.filters[j], subject, a)

OptionGate(f, value) ==
    \E k \in DOMAIN f.optionFilters :
        Matches(f.optionFilters[k].func, value, f.optionFilters[k].nameToMatch)

Least(S) == CHOOSE x \in S : \A y \in S : x <= y

\* the name rules whose gates the call satisfies
MatchingNameRules ==
    { i \in DOMAIN knobNameFilters : RuleGates(knobNameFilters[i], args.name, args) }

\* the option rules whose gates the call's paramName satisfies
GatedOptionRules ==
    { i \in DOMAIN knobChoiceOptionFilters :
        RuleGates(knobChoiceOptionFilters[i], args.paramName, args) }

\* those of them with an option pattern that matches the value
RewritingOptionRules ==
    { i \in GatedOptionRules : OptionGate(knobChoiceOptionFilters[i], args.name) }

Unchanged == ~ret /\ name = args.name

\* ------------------------------------------------------------- properties
\* C1: a lookup either returns true with the string set to the replacement
\* of a rule of its registry, or returns false with the string as it was;
\* when no rule has all its gates satisfied it returns false, string unchanged.
C1_RewriteOrUntouched ==
    /\ call = "name" =>
           /\ \/ ret /\ \E i \in DOMAIN knobNameFilters : name = knobNameFilters[i].replacement
              \/ Unchanged
           /\ MatchingNameRules = {} => Unchanged
    /\ call = "option" =>
           /\ \/ ret /\ \E i \in DOMAIN knobChoiceOptionFilters :
                            name = knobChoiceOptionFilters[i].replacement
              \/ Unchanged
           /\ RewritingOptionRules = {} => Unchanged

\* paramName "somethingElse", value "RGBA": returned false, value unchanged
C1_Witness ==
    /\ call = "option"
    /\ args.paramName = <<"s", "o", "m", "e", "t", "h", "i", "n", "g", "E", "l", "s", "e">>
    /\ args.name = <<"R", "G", "B", "A">>
    /\ ~ret
    /\ name = <<"R", "G", "B", "A">>

\* C2: when two or more name rules match the call, the name becomes the
\* replacement of the first of them in registration order, and no later
\* rule is applied to the rewritten name.
C2_FirstMatchWins ==
    (call = "name" /\ Cardinality(MatchingNameRules) >= 2) =>
        ret /\ name = knobNameFilters[Least(MatchingNameRules)].replacement

\* two rules match, and the later one also matches the rewritten name and
\* has another replacement: the name is the first rule's replacement
C2_Witness ==
    /\ call = "name"
    /\ Cardinality(MatchingNameRules) >= 2
    /\ ret
    /\ name = knobNameFilters[Least(MatchingNameRules)].replacement
    /\ \E i \in MatchingNameRules :
           /\ i > Least(MatchingNameRules)
           /\ knobNameFilters[i].replacement # name
           /\ RuleGates(knobNameFilters[i], name, args)

\* C3: an option rule whose gates match paramName but none of whose option
\* patterns matches the value does not end the scan: the value is rewritten
\* by the first rule with matching gates and a matching option pattern, and
\* false is returned only when the registry has no such rule.
C3_ScanContinues ==
    call = "option" =>
        IF RewritingOptionRules # {}
        THEN ret /\ name = knobChoiceOptionFilters[Least(RewritingOptionRules)].replacement
        ELSE Unchanged

\* "outputChannels" / "Forward.Motion": the gates of the first rule match
\* without an option match, and the third rule rewrites the value
C3_Witness ==
    /\ call = "option"
    /\ args.paramName = <<"o", "u", "t", "p", "u", "t", "C", "h", "a", "n", "n", "e", "l", "s">>
    /\ args.name = <<"F", "o", "r", "w", "a", "r", "d", ".", "M", "o", "t", "i", "o", "n">>
    /\ 1 \in GatedOptionRules \ RewritingOptionRules
    /\ Least(RewritingOptionRules) = 3
    /\ ret
    /\ name = kNatronForwardMotionVectorsPlaneID \o <<".">> \o kNatronMotionComponentsLabel

\* C4: a rule matches iff one of its alternatives has its plug-in
\* constraints satisfied and its name matcher succeeding, whatever the other
\* alternatives of the rule are (stated for a registry of one rule with
\* alternatives, a known plug-in version and a passing host-version gate).
C4_AnyAlternativeMatches ==
    ( /\ call = "name"
      /\ Len(knobNameFilters) = 1
      /\ knobNameFilters[1].filters # <<>>
      /\ args.pluginVersionMajor # -1
      /\ args.pluginVersionMinor # -1
      /\ HostGate(knobNameFilters[1], args) ) =>
        ( ret <=> \E j \in DOMAIN knobNameFilters[1].filters :
                      AlternativeGate(knobNameFilters[1].filters[j], args.name, args) )

\* C5: a host version whose major is -1 is rejected by no host-version
\* range, and a plug-in version whose major is -1 by no plug-in constraint's
\* version bounds, so that the lookup then depends on the identifiers alone.
C5_SentinelNeutral ==
    /\ args.natronVersionMajor = -1 =>
           \A i \in DOMAIN knobNameFilters :
               matchNatronVersion(knobNameFilters[i], args.natronVersionMajor,
                                  args.natronVersionMinor, args.natronVersionRevision)
    /\ args.pluginVersionMajor = -1 =>
           \A i \in DOMAIN knobNameFilters :
               \A j \in DOMAIN knobNameFilters[i].filters :
                   \A k \in DOMAIN knobNameFilters[i].filters[j].plugin :
                       ~pluginVersionOutOfRange(knobNameFilters[i].filters[j].plugin[k],
                                                args.pluginVersionMajor, args.pluginVersionMinor)
    /\ (call = "name" /\ args.natronVersionMajor = -1 /\ args.pluginVersionMajor = -1) =>
           ( ret <=> \E i \in DOMAIN knobNameFilters :
                         \/ knobNameFilters[i].filters = <<>>
                         \/ \E j \in DOMAIN knobNameFilters[i].filters :
                                LET m == knobNameFilters[i].filters[j]
                                IN  /\ Matches(m.filter.func, args.name, m.filter.nameToMatch)
                                    /\ \/ m.plugin = <<>>
                                       \/ \E k \in DOMAIN m.plugin :
                                              Matches(m.plugin[k].func, args.pluginID,
                                                      m.plugin[k].pluginID) )

\* host version (-1, ., .) against a range that no known version is in
\* (from major 1, up to major 0): the rule rewrote the name
C5_Witness ==
    /\ call = "name"
    /\ args.natronVersionMajor = -1
    /\ Len(knobNameFilters) = 1
    /\ knobNameFilters[1].natronVersionMin.vMajor = 1
    /\ knobNameFilters[1].natronVersionMax.vMajor = 0
    /\ ret
    /\ name = knobNameFilters[1].replacement

\* C6: a -1 in the minor (or revision) field of the caller's version leaves
\* that field and the finer ones unconstrained: with minor = -1 the host
\* gate is decided by the majors alone, with revision = -1 by the majors and
\* minors alone, and with plug-in minor = -1 the plug-in bounds by the majors
\* alone (stated for a registry of one rule).
C6_UnknownFieldUnconstrained ==
    (call = "name" /\ Len(knobNameFilters) = 1) =>
        LET f == knobNameFilters[1]
        IN  /\ (f.filters = <<>> /\ args.natronVersionMajor # -1
                    /\ (args.natronVersionMinor = -1 \/ args.natronVersionRevision = -1)) =>
                   (ret <=> HostGate(f, args))
            /\ (f.filters # <<>> /\ args.natronVersionMajor = -1
                    /\ args.pluginVersionMajor # -1 /\ args.pluginVersionMinor = -1
                    /\ Len(f.filters) = 1 /\ Len(f.filters[1].plugin) = 1) =>
                   (ret <=> AlternativeGate(f.filters[1], args.name, args))

LegacyChannelNames ==
    { <<"r">>, <<"d", "o", "R", "e", "d">>, <<"g">>, <<"d", "o", "G", "r", "e", "e", "n">>, <<"b">>, <<"d", "o", "B", "l", "u", "e">>, <<"a">>, <<"d", "o", "A", "l", "p", "h", "a">> }

ProcessChannelOf(n) ==
    CASE n \in { <<"r">>, <<"d", "o", "R", "e", "d">> } -> kNatronOfxParamProcessR
      [] n \in { <<"g">>, <<"d", "o", "G", "r", "e", "e", "n">> } -> kNatronOfxParamProcessG
      [] n \in { <<"b">>, <<"d", "o", "B", "l", "u", "e">> } -> kNatronOfxParamProcessB
      [] n \in { <<"a">>, <<"d", "o", "A", "l", "p", "h", "a">> } -> kNatronOfxParamProcessA

\* host version <= 2.2.99 in the lexicographic order (an unknown major, -1, is)
HostUpTo2299 == LexLE(HostVersion(args), <<2, 2, 99>>)

\* C7: for a plug-in whose identifier starts with "net.sf.openfx." or
\* "fr.inria.", of any version, the legacy channel names are rewritten to
\* the process-channel identifier iff the host version is <= (2,2,99).
C7_LegacyChannelNames ==
    ( /\ call = "name"
      /\ HasPrefix(args.pluginID, <<"n", "e", "t", ".", "s", "f", ".", "o", "p", "e", "n", "f", "x", ".">>) \/ HasPrefix(args.pluginID, <<"f", "r", ".", "i", "n", "r", "i", "a", ".">>)
      /\ args.name \in LegacyChannelNames ) =>
        IF HostUpTo2299 THEN ret /\ name = ProcessChannelOf(args.name) ELSE Unchanged

\* "net.sf.openfx.Foo", host 2.2.99, name "r"
C7_Witness ==
    /\ call = "name"
    /\ args.pluginID = <<"n", "e", "t", ".", "s", "f", ".", "o", "p", "e", "n", "f", "x", ".", "F", "o", "o">>
    /\ HostVersion(args) = <<2, 2, 99>>
    /\ args.name = <<"r">>
    /\ ret
    /\ name = kNatronOfxParamProcessR

\* C8 as stated: paramName "channels", value "red", host version <= 2.2.99
\* or unknown: the value becomes the red component of the colour plane.
C8_ChannelsRed ==
    (call = "option" /\ args.paramName = <<"c", "h", "a", "n", "n", "e", "l", "s">> /\ args.name = <<"r", "e", "d">> /\ HostUpTo2299) =>
        ret /\ name = kNatronColorPlaneID \o <<".", "R">>

\* C8, amended: it is for a paramName that starts with "maskChannel" or is
\* "premultChannel" that the value "red" becomes the red component of the
\* colour plane; for paramName "channels" the value "red" is left unchanged.
C8_MaskChannelRed ==
    (call = "option" /\ args.name = <<"r", "e", "d">> /\ HostUpTo2299) =>
        /\ (HasPrefix(args.paramName, <<"m", "a", "s", "k", "C", "h", "a", "n", "n", "e", "l">>) \/ args.paramName = <<"p", "r", "e", "m", "u", "l", "t", "C", "h", "a", "n", "n", "e", "l">>) =>
               ret /\ name = kNatronColorPlaneID \o <<".", "R">>
        /\ args.paramName = <<"c", "h", "a", "n", "n", "e", "l", "s">> => Unchanged

C8_Witness ==
    /\ call = "option"
    /\ args.paramName = <<"m", "a", "s", "k", "C", "h", "a", "n", "n", "e", "l", "F", "o", "o">>
    /\ args.name = <<"r", "e", "d">>
    /\ HostVersion(args) = <<2, 2, 99>>
    /\ ret
    /\ name = kNatronColorPlaneID \o <<".", "R">>

PlaneOptions ==
    { <<"R", "G", "B", "A">>, <<"R", "G", "B">>, <<"A", "l", "p", "h", "a">>, <<"C", "o", "l", "o", "r", ".", "R", "G", "B", "A">>, <<"C", "o", "l", "o", "r", ".", "R", "G", "B">>, <<"C", "o", "l", "o", "r", ".", "A", "l", "p", "h", "a">> }

RanAlone(t) ==
    IF pc[t] = "name returned"
    THEN nameLoop(KnobNameFilters, 1, targs[t], targs[t].name)
    ELSE optionLoopFrom(KnobChoiceOptionFilters, 1, targs[t], targs[t].name)

\* C10: under any interleaving of lookups the registries keep their
\* constructed value, a step of one thread leaves the output string and the
\* result of every other thread alone, and a lookup returns what it would
\* have returned running alone.
C10_Reentrant ==
    /\ [](registries = << KnobNameFilters, KnobChoiceOptionFilters >>)
    /\ [][\A t \in Threads :
              (pc'[t] = pc[t] /\ idx'[t] = idx[t]) =>
                  (tname'[t] = tname[t] /\ tret'[t] = tret[t])]_vars
    /\ [](\A t \in Threads :
              pc[t] \in {"name returned", "option returned"} =>
                  (tret[t] = RanAlone(t).ret /\ tname[t] = RanAlone(t).name))

\* thread 1 has returned from a name lookup that rewrote "b" while thread 2
\* is in the middle of an option lookup
C10_Witness ==
    /\ NumThreads >= 2
    /\ DOMAIN pc = Threads
    /\ pc[1] = "name returned"
    /\ tret[1]
    /\ tname[1] = kNatronOfxParamProcessB
    /\ pc[2] = "option"
    /\ idx[2] = 2


\* the bijections of 1 .. n onto itself
Reorderings(n) ==
    { q \in [1 .. n -> 1 .. n] : \A i, j \in 1 .. n : q[i] = q[j] => i = j }

\* the rule f with the plug-in constraints of its one alternative put in
\* the order q
WithConstraintsReordered(f, q) ==
    [f EXCEPT !.filters[1].plugin = [k \in DOMAIN @ |-> @[q[k]]]]

\* C11: the plug-in gate of one alternative is an OR over its constraints:
\* the rule matches iff the name matcher succeeds and the constraint list is
\* empty or some constraint has a matching identifier and a version range
\* containing the plug-in version, and the lookup returns the same result
\* for every order of the constraints (stated for a registry of one rule
\* with one alternative, a known plug-in version and a passing host gate).
C11_ConstraintsAreOred ==
    ( /\ call = "name"
      /\ Len(knobNameFilters) = 1
      /\ Len(knobNameFilters[1].filters) = 1
      /\ args.pluginVersionMajor # -1
      /\ args.pluginVersionMinor # -1
      /\ HostGate(knobNameFilters[1], args) ) =>
        LET f == knobNameFilters[1]
            m == f.filters[1]
        IN  /\ ret <=> ( /\ Matches(m.filter.func, args.name, m.filter.nameToMatch)
                         /\ \/ m.plugin = <<>>
                            \/ \E k \in DOMAIN m.plugin :
                                   /\ Matches(m.plugin[k].func, args.pluginID, m.plugin[k].pluginID)
                                   /\ PluginVersionGate(m.plugin[k], args) )
            /\ \A q \in Reorderings(Len(m.plugin)) :
                   nameLoop(<< WithConstraintsReordered(f, q) >>, 1, args, args.name).ret = ret

\* the fields of the bound b before its first field equal to -1
BoundPrefix(b) ==
    IF b[1] = -1 THEN <<>>
    ELSE IF b[2] = -1 THEN << b[1] >>
    ELSE IF b[3] = -1 THEN << b[1], b[2] >>
    ELSE b

\* v and w have the same length: v <= w in the lexicographic order
SeqLexLE(v, w) ==
    \/ v = w
    \/ \E i \in DOMAIN v : v[i] < w[i] /\ \A j \in 1 .. i - 1 : v[j] = w[j]

\* the version v is not below (not above) the bound b truncated at its
\* first -1
NotBelowTruncated(v, b) == SeqLexLE(BoundPrefix(b), SubSeq(v, 1, Len(BoundPrefix(b))))

NotAboveTruncated(v, b) == SeqLexLE(SubSeq(v, 1, Len(BoundPrefix(b))), BoundPrefix(b))

KnownHostVersion ==
    args.natronVersionMajor >= 0 /\ args.natronVersionMinor >= 0 /\ args.natronVersionRevision >= 0

\* C12: for a host version with its three fields known, a rule without
\* alternatives matches iff the version is not below natronVersionMin and not
\* above natronVersionMax, each compared lexicographically on the fields of
\* the bound that precede its first -1 (none when the bound's major is -1),
\* a version equal to the truncated bound passing.
C12_HostGateTruncatedLex ==
    ( /\ call \in {"name", "option"}
      /\ Len(knobNameFilters) = 1
      /\ knobNameFilters[1].filters = <<>>
      /\ KnownHostVersion ) =>
        LET f == knobNameFilters[1]
            bMin == << f.natronVersionMin.vMajor, f.natronVersionMin.vMinor, f.natronVersionMin.vRev >>
            bMax == << f.natronVersionMax.vMajor, f.natronVersionMax.vMinor, f.natronVersionMax.vRev >>
        IN  ret <=> ( /\ NotBelowTruncated(HostVersion(args), bMin)
                      /\ NotAboveTruncated(HostVersion(args), bMax) )

\* host 1.1.0 in the range from (1, -1, 1) up to (-1, 0, 0): the revision
\* of the lower bound and the minor and revision of the upper bound would
\* reject it if they were compared; the rule rewrote the name
C12_Witness ==
    /\ call = "name"
    /\ HostVersion(args) = <<1, 1, 0>>
    /\ Len(knobNameFilters) = 1
    /\ knobNameFilters[1].filters = <<>>
    /\ knobNameFilters[1].natronVersionMin = [vMajor |-> 1, vMinor |-> -1, vRev |-> 1]
    /\ knobNameFilters[1].natronVersionMax = [vMajor |-> -1, vMinor |-> 0, vRev |-> 0]
    /\ ret
    /\ name = knobNameFilters[1].replacement

\* C13: every rule of the name registry has a non-empty replacement and
\* every rule of the option registry a non-empty replacement and a non-empty
\* list of option patterns, so that the assertions made on the rule of an
\* iteration hold for every rule a lookup can iterate on, whatever the
\* arguments of the lookup.
C13_AssertionsHold ==
    /\ \A i \in DOMAIN knobNameFilters :
           /\ Len(knobNameFilters[i].replacement) > 0
           /\ assertKnobNameFilter(knobNameFilters[i])
    /\ \A i \in DOMAIN knobChoiceOptionFilters :
           /\ Len(knobChoiceOptionFilters[i].replacement) > 0
           /\ Len(knobChoiceOptionFilters[i].optionFilters) > 0
           /\ assertKnobChoiceOptionFilter(knobChoiceOptionFilters[i])

\* a Write node's "bitDepth" / "8i": the lookup iterated on the rules
\* before the one that rewrote the value to "8u", all passing the assertions
C13_Witness ==
    /\ call = "option"
    /\ args.paramName = <<"b", "i", "t", "D", "e", "p", "t", "h">>
    /\ args.name = <<"8", "i">>
    /\ ret
    /\ name = <<"8", "u">>
    /\ Least(RewritingOptionRules) > 1
    /\ \A i \in 1 .. Least(RewritingOptionRules) :
           assertKnobChoiceOptionFilter(knobChoiceOptionFilters[i])

\* C14: on a parameter whose name starts with "maskChannel" and a host
\* version up to 2.2.99, a value equal ignoring case to P.x, with P in
\* {A, B} and x in {r, g, b, a}, is rewritten to P, ".", the colour plane
\* identifier, "." and the upper-case letter of x.
C14_InputChannelsUniform ==
    ( /\ call = "option"
      /\ HasPrefix(args.paramName, <<"m", "a", "s", "k", "C", "h", "a", "n", "n", "e", "l">>)
      /\ HostUpTo2299 ) =>
        \A P \in {"A", "B"}, x \in {"r", "g", "b", "a"} :
            EqualIgnoringCase(args.name, << P, ".", x >>) =>
                /\ ret
                /\ name = << P, "." >> \o kNatronColorPlaneID \o << ".", UpperOf[x] >>
====
